---- MODULE Spec2Model ----
(***************************************************************************)
(* A model of the EPCO electricity-demand scraper: epco.juyo              *)
(* (src/epco_scraper.py) and its daily driver (src/run_epco_juyo.py).     *)
(*                                                                         *)
(* Texts are sequences of one-character strings, byte strings are         *)
(* sequences of byte values, paths are sequences of path segments and     *)
(* URLs are records of a host and a sequence of path segments.            *)
(***************************************************************************)
EXTENDS Integers, Sequences, FiniteSets, TLC

VARIABLES
    pc,          \* position of the running juyo call
    area,        \* juyo's area argument
    date,        \* juyo's date after lines 53-58, [y, m, d], or None
    html,        \* res.text of the lookup page (line 121), or None
    archive,     \* zf.infolist() of the downloaded ZIP (line 140)
    idx,         \* position of the member loop of line 140
    extracted_files, \* line 138
    result,      \* what the call returned or raised
    fs,          \* the filesystem: directories and files
    fs0,         \* the filesystem when the running call started
    log,         \* every GET, mkdir, decode and write so far, in order
    caller,      \* "api", "driver" or "pure": who drives the model
    fromiso_basic, \* does date.fromisoformat accept YYYYMMDD (Python >= 3.11)
    dpc,         \* position of the driver
    yesterday,   \* the driver's date (line 22), or None
    dIdx,        \* the driver's position in AREAS
    calls,       \* the driver's juyo calls so far, with their outcomes
    stdout,      \* what the driver printed
    exit_status, \* the driver process's exit status, or None
    pKind,       \* which pure function is exercised
    pStage,      \* how often it has been applied
    pIn,         \* its input
    pOut,        \* its result
    pOut2        \* its result applied to pOut

callVars   == <<pc, area, date, html, archive, idx, extracted_files, result, fs, fs0, log>>
driverVars == <<dpc, yesterday, dIdx, calls, stdout, exit_status>>
pureVars   == <<pKind, pStage, pIn, pOut, pOut2>>
vars       == <<callVars, driverVars, pureVars, caller, fromiso_basic>>

None == "None"

(***************************************************************************)
(* Bounds of the model.                                                    *)
(***************************************************************************)
MaxLen     == 5     \* longest text given to the cleaning functions
MaxMembers == 2     \* most members of a downloaded archive

(***************************************************************************)
(* Text: str.splitlines, str.strip, str.join.                              *)
(***************************************************************************)
LF == "\n"
CR == "\r"

\* The characters str.splitlines breaks a line at (those of the alphabet).
LineBreaks == {LF, CR, "\f"}

\* The characters str.strip removes.
Whitespace == {" ", "\t", LF, CR, "\f"}

RECURSIVE SplitFrom(_, _, _, _)
SplitFrom(text, i, cur, acc) ==
    IF i > Len(text)
    THEN IF cur # <<>> THEN Append(acc, cur) ELSE acc
    ELSE IF text[i] \in LineBreaks
         THEN IF text[i] = CR /\ i < Len(text) /\ text[i + 1] = LF
              THEN SplitFrom(text, i + 2, <<>>, Append(acc, cur))
              ELSE SplitFrom(text, i + 1, <<>>, Append(acc, cur))
         ELSE SplitFrom(text, i + 1, Append(cur, text[i]), acc)

\* text.splitlines(): "a\n" gives ["a"], "\n" gives [""], "" gives [].
splitlines(text) == SplitFrom(text, 1, <<>>, <<>>)

\* not line.strip()
IsBlank(line) == \A k \in 1..Len(line) : line[k] \in Whitespace

NotBlank(line) == ~IsBlank(line)

RECURSIVE JoinFrom(_, _)
JoinFrom(lines, i) ==
    IF i > Len(lines) THEN <<>>
    ELSE IF i = Len(lines) THEN lines[i]
    ELSE lines[i] \o <<LF>> \o JoinFrom(lines, i + 1)

\* "\n".join(lines)
Join(lines) == JoinFrom(lines, 1)

\* Trailing newline of lines 80, 98, 168, 172.
Terminate(body) == body \o <<LF>>

\* A variant of StripLines that drops only the empty lines (if line).
StripLines_OnlyEmpty(lines) == SelectSeq(lines, LAMBDA l : l # <<>>)

\* Lines 79, 97, 171: the lines that are not blank.
StripLines(lines) == SelectSeq(lines, NotBlank)

\* Lines 79-80, 97-98, 171-172.
StripAllBlankLines(text) == Terminate(Join(StripLines(splitlines(text))))

\* Line 160-161: the inner while loop, from j.
RECURSIVE RunEnd(_, _)
RunEnd(lines, j) ==
    IF j <= Len(lines) /\ IsBlank(lines[j]) THEN RunEnd(lines, j + 1) ELSE j

\* Line 163: what a run of j - i > 1 blank lines adds to cleaned.
KeptRun(lines, i, j) == [k \in 1..(j - i) |-> <<>>]

\* A variant of CollapseFrom that keeps the runs of length 1 too
\* (j - i >= 1 for j - i > 1).
RECURSIVE CollapseFrom_KeepSingles(_, _, _)
CollapseFrom_KeepSingles(lines, i, cleaned) ==
    IF i > Len(lines) THEN cleaned
    ELSE IF IsBlank(lines[i])
         THEN LET j == RunEnd(lines, i)
              IN  CollapseFrom_KeepSingles(lines, j,
                      IF j - i >= 1 THEN cleaned \o KeptRun(lines, i, j) ELSE cleaned)
         ELSE CollapseFrom_KeepSingles(lines, i + 1, Append(cleaned, lines[i]))

\* Lines 157-167: the outer while loop, from i.
RECURSIVE CollapseFrom(_, _, _)
CollapseFrom(lines, i, cleaned) ==
    IF i > Len(lines) THEN cleaned
    ELSE IF IsBlank(lines[i])
         THEN LET j == RunEnd(lines, i)
              IN  CollapseFrom(lines, j,
                      IF j - i > 1 THEN cleaned \o KeptRun(lines, i, j) ELSE cleaned)
         ELSE CollapseFrom(lines, i + 1, Append(cleaned, lines[i]))

\* Lines 154-167: cleaned, from the lines of the text.
CollapseLines(lines) == CollapseFrom(lines, 1, <<>>)

\* Lines 154-168.
CollapseSingleBlankLines(text) == Terminate(Join(CollapseLines(splitlines(text))))

(***************************************************************************)
(* Resource locator: lines 22-28, 60-68, 86-87, 103-128.                   *)
(***************************************************************************)
Url(host, path) == [host |-> host, path |-> path]

\* Lines 22-28.  Every base URL ends with "/", so its path is a directory.
BASE_URLS ==
    [hokkaido |-> Url("https://denkiyoho.hepco.co.jp", <<>>),
     tohoku   |-> Url("https://setsuden.nw.tohoku-epco.co.jp", <<>>),
     tokyo    |-> Url("https://www.tepco.co.jp", <<"forecast">>),
     chubu    |-> Url("https://powergrid.chuden.co.jp", <<"denkiyoho">>),
     hokuriku |-> Url("https://www.rikuden.co.jp", <<"nw", "denki-yoho", "csv">>)]

SupportedAreas == DOMAIN BASE_URLS

\* urllib.parse.urljoin on a base that ends with "/": a reference that starts
\* with "/" replaces the base's path, any other is appended to it.
urljoin(base, absolute, segs) ==
    IF absolute THEN Url(base.host, segs) ELSE Url(base.host, base.path \o segs)

\* The format specification 02d, for 0..99.
Fmt02(n) == IF n < 10 THEN "0" \o ToString(n) ELSE ToString(n)

\* A variant of start_months with March in the second quarter.
start_months_MarchLate == <<1, 1, 4, 4, 4, 4, 7, 7, 7, 10, 10, 10>>

\* Line 110.
start_months == <<1, 1, 1, 4, 4, 4, 7, 7, 7, 10, 10, 10>>

\* Line 111.
end_months == <<3, 3, 3, 6, 6, 6, 9, 9, 9, 12, 12, 12>>

\* Line 67.
TohokuCsvName(d) == "juyo_" \o ToString(d.y) \o "_tohoku.csv"

\* Line 86: %Y%m%d.
HokurikuCsvName(d) ==
    "juyo_05_" \o ToString(d.y) \o Fmt02(d.m) \o Fmt02(d.d) \o ".csv"

\* Lines 104, 107.
MonthlyZipName(d) == ToString(d.y) \o Fmt02(d.m) \o "_power_usage.zip"

\* Lines 113-116.
QuarterlyZipName(d, a) ==
    ToString(d.y) \o Fmt02(start_months[d.m]) \o "-" \o Fmt02(end_months[d.m])
        \o "_" \o a \o "_denkiyohou.zip"

\* Line 123: the literal text searched for, as the relative link it is.
LinkPattern(d, a) == <<"area", "data", "zip", QuarterlyZipName(d, a)>>

\* A variant of LinkFound that matches on the link's directory alone.
LinkFound_AnyZip(page, pattern) ==
    \E k \in 1..Len(page) : SubSeq(page[k], 1, 3) = SubSeq(pattern, 1, 3)

\* Line 124: re.search of an escaped pattern is a literal, case-sensitive
\* substring search.  A page is the sequence of the relative links in its text.
LinkFound(page, pattern) == \E k \in 1..Len(page) : page[k] = pattern

\* Lines 68, 87.
CsvUrl(d, a) ==
    IF a = "tohoku"
    THEN urljoin(BASE_URLS[a], FALSE, <<"common", "demand", TohokuCsvName(d)>>)
    ELSE urljoin(BASE_URLS[a], FALSE, <<HokurikuCsvName(d)>>)

\* Lines 105, 108, 127-128.
ZipUrl(d, a) ==
    IF a = "tokyo"
    THEN urljoin(BASE_URLS[a], FALSE, <<"html", "images", MonthlyZipName(d)>>)
    ELSE IF a = "chubu"
    THEN urljoin(BASE_URLS[a], TRUE,
                 <<"denki_yoho_content_data", "download_csv", MonthlyZipName(d)>>)
    ELSE urljoin(BASE_URLS[a], FALSE, LinkPattern(d, a))

\* Line 118.
PageUrl(a) == urljoin(BASE_URLS[a], FALSE, <<"area_download.html">>)

(***************************************************************************)
(* Persister: lines 72-74, 91-93, 133-136, 143-144.                        *)
(***************************************************************************)
\* Lines 133-134: area_map.get(area, area).
area_path(a) ==
    IF a = "hokkaido" THEN "hok"
    ELSE IF a = "tokyo" THEN "tok"
    ELSE IF a = "chubu" THEN "chb"
    ELSE a

\* A variant of TargetDir that sends every area to the archive areas' tree.
TargetDir_OneTree(d, a) == <<"csv", "juyo", area_path(a), ToString(d.y)>>

\* Lines 72, 91, 135.
TargetDir(d, a) ==
    IF a = "tohoku" THEN <<"csv", "juyo", "toh">>
    ELSE IF a = "hokuriku" THEN <<"csv", "hrk", "hrk", ToString(d.y)>>
    ELSE <<"csv", "juyo", area_path(a), ToString(d.y)>>

\* Line 143: Path(member.filename).name.
Basename(filename) == filename[Len(filename)]

\* Lines 74, 93, 144.
DestPath(d, a, name) == Append(TargetDir(d, a), name)

\* Path.mkdir(parents=True, exist_ok=True).
Mkdir(f, dir) ==
    [f EXCEPT !.dirs = @ \cup {SubSeq(dir, 1, k) : k \in 1..Len(dir)}]

\* open(dest_path, "w", encoding="utf-8") and write: the file holds the text,
\* whatever it held before.
WriteText(f, path, text) ==
    [f EXCEPT !.files = {x \in @ : x.path # path}
                          \cup {[path |-> path, mode |-> "w", content |-> text]}]

(***************************************************************************)
(* Decoder: chardet.detect and bytes.decode, lines 76-77, 95-96, 148-149.  *)
(***************************************************************************)
\* str.lower on the encoding names chardet reports.
Lower(name) ==
    IF name = "SHIFT_JIS" THEN "shift_jis"
    ELSE IF name = "EUC-TW" THEN "euc-tw"
    ELSE name

\* Python's codec registry: the codec an encoding name stands for, None when
\* there is none (EUC-TW and the empty name have no codec).
Codec(name) ==
    IF name \in {"SHIFT_JIS", "shift_jis"} THEN "shift_jis"
    ELSE IF name \in {"utf-8", "UTF-8"} THEN "utf_8"
    ELSE None

\* One byte decoded alone: 0xB1 is a half-width katakana in Shift-JIS and a
\* stray continuation byte in UTF-8; 0x87 starts a CP932-only character, which
\* neither codec decodes.
DecodeByte(codec, b) ==
    IF b = 97 THEN "a"
    ELSE IF b = 32 THEN " "
    ELSE IF b = 10 THEN LF
    ELSE IF b = 13 THEN CR
    ELSE IF b = 64 THEN "@"
    ELSE IF b = 177 /\ codec = "shift_jis" THEN "<U+FF71>"
    ELSE None

\* data.decode(encoding): the text, or the exception raised.
decode(data, encoding) ==
    LET codec == Codec(encoding)
        chars == [k \in 1..Len(data) |-> DecodeByte(codec, data[k])]
    IN  IF codec = None
        THEN [exc |-> "LookupError", text |-> <<>>]
        ELSE IF \E k \in 1..Len(data) : chars[k] = None
        THEN [exc |-> "UnicodeDecodeError", text |-> <<>>]
        ELSE [exc |-> None, text |-> chars]

\* Lines 76, 95: chardet.detect(res.content).get("encoding") or "shift_jis".
CsvEncoding(detected) == IF detected = None THEN "shift_jis" ELSE detected

\* Line 148: (chardet.detect(data).get("encoding") or "").lower().
MemberEncoding(detected) == Lower(IF detected = None THEN "" ELSE detected)

\* Lines 150-172: the cleaning of a member's text, by area.
CleanMember(a, text) ==
    IF a = "tokyo" THEN CollapseSingleBlankLines(text)
    ELSE IF a \in {"hokkaido", "chubu"} THEN StripAllBlankLines(text)
    ELSE text

\* A variant of raises_for_status that lets client errors through.
raises_for_status_ServerOnly(status) == 500 <= status /\ status < 600

\* Response.raise_for_status raises HTTPError for 400 <= status_code < 600.
raises_for_status(status) == 400 <= status /\ status < 600

(***************************************************************************)
(* The inputs and the environment.                                         *)
(***************************************************************************)
Ymd(y, m, d) == [y |-> y, m |-> m, d |-> d]

\* The forms of juyo's date argument: a date, a datetime, an ISO string
\* YYYY-MM-DD, a basic string YYYYMMDD, a string that is no date, another type.
DateKinds == {"date", "datetime", "str_iso", "str_basic", "str_bad", "other"}

ApiDates == {Ymd(2023, 12, 31), Ymd(2024, 5, 10)}

ApiAreas == SupportedAreas \cup {"kansai"}

\* What chardet.detect reports as the encoding.
Detected == {"SHIFT_JIS", "utf-8", "EUC-TW", None}

\* Payloads: "a\r\n\na", "a\n \n\n<U+FF71>\n", and a CP932-only character.
Ascii    == <<97, 13, 10, 10, 97>>
Katakana == <<97, 10, 32, 10, 10, 177, 10>>
Cp932    == <<135, 64>>
Payloads == {Ascii, Katakana, Cp932}

\* A member's bytes with what chardet reports for them.
MemberPayloads ==
    {<<Ascii, "SHIFT_JIS">>, <<Ascii, "utf-8">>, <<Ascii, "EUC-TW">>, <<Ascii, None>>,
     <<Katakana, "SHIFT_JIS">>, <<Cp932, "SHIFT_JIS">>}

Statuses == {200, 304, 404, 503}

Member(filename, kind, data, detected) ==
    [filename |-> filename, kind |-> kind, data |-> data, detected |-> detected]

\* The members of an archive: a directory entry, an encrypted file (ZipFile.open
\* raises RuntimeError for it) and plain files.
Members ==
    {Member(<<"sub">>, "dir", <<>>, None), Member(<<"e.csv">>, "encrypted", <<>>, None)}
    \cup {Member(f, "file", p[1], p[2]) :
            f \in {<<"a.csv">>, <<"sub", "b.csv">>}, p \in MemberPayloads}

SeqsUpTo(S, n) == UNION {[1..k -> S] : k \in 0..n}

Archives == SeqsUpTo(Members, MaxMembers)

\* The driver's runs see archives of at most one member, a.csv if it is a file.
DriverArchives ==
    {z \in SeqsUpTo(Members, 1) :
        \A k \in 1..Len(z) : z[k].kind = "file" => z[k].filename = <<"a.csv">>}

ArchivesOf(who) == IF who = "driver" THEN DriverArchives ELSE Archives

\* Lookup pages: the links in the page text.
Pages ==
    {<<>>,
     <<<<"area", "data", "zip", "202404-06_hokkaido_denkiyohou.zip">>>>,
     <<<<"area", "data", "zip", "202404-06_HOKKAIDO_denkiyohou.zip">>,
       <<"area", "data", "zip", "202310-12_hokkaido_denkiyohou.zip">>>>}

EmptyFS == [dirs |-> {}, files |-> {}]

OldFS ==
    [dirs  |-> {<<"csv">>, <<"csv", "juyo">>, <<"csv", "juyo", "tok">>,
                <<"csv", "juyo", "tok", "2024">>},
     files |-> {[path |-> <<"csv", "juyo", "tok", "2024", "a.csv">>, mode |-> "w",
                 content |-> <<"o", "l", "d", LF>>]}]

(***************************************************************************)
(* The event log and the result of a call.                                 *)
(***************************************************************************)
\* member is the position of a ZIP member, 0 for a direct CSV body; exc is the
\* exception the step raised, None when it succeeded.
Ev(ev, url, status, path, member, detected, encoding, exc) ==
    [ev |-> ev, url |-> url, status |-> status, path |-> path, member |-> member,
     detected |-> detected, encoding |-> encoding, exc |-> exc]

GetEv(url) == Ev("GET", url, 0, None, 0, None, None, None)
RespEv(url, status) == Ev("response", url, status, None, 0, None, None, None)
MkdirEv(path) == Ev("mkdir", None, 0, path, 0, None, None, None)
DecodeEv(k, detected, encoding, exc) ==
    Ev("decode", None, 0, None, k, detected, encoding, exc)
WriteEv(k, path, exc) == Ev("write", None, 0, path, k, None, None, exc)

NoResult == [kind |-> "none", exc |-> None, msg |-> None, paths |-> <<>>]
Raise(exc, msg) == [kind |-> "raise", exc |-> exc, msg |-> msg, paths |-> <<>>]
Return(paths) == [kind |-> "return", exc |-> None, msg |-> None, paths |-> paths]

(***************************************************************************)
(* epco.juyo, lines 30-177.                                                *)
(***************************************************************************)
\* Lines 53-58: the date argument, parsed.
ParseDate(arg) ==
    IF arg.kind \in {"date", "datetime", "str_iso"}
    THEN [exc |-> None, date |-> arg.ymd]
    ELSE IF arg.kind = "str_basic"
    THEN IF fromiso_basic THEN [exc |-> None, date |-> arg.ymd]
         ELSE [exc |-> "ValueError", date |-> None]
    ELSE IF arg.kind = "str_bad" THEN [exc |-> "ValueError", date |-> None]
    ELSE [exc |-> "TypeError", date |-> None]

\* Lines 67, 86.
CsvName(d, a) == IF a = "tohoku" THEN TohokuCsvName(d) ELSE HokurikuCsvName(d)

\* An exception leaves juyo: the call is over.
Raised(exc, msg) ==
    /\ pc' = "raised"
    /\ result' = Raise(exc, msg)

\* Lines 53-69, 86-88, 103-119: from the call to the first GET.
JuyoStart(arg, a) ==
    LET parsed == ParseDate(arg)
    IN  /\ area' = a
        /\ fs0' = fs
        /\ UNCHANGED fs
        /\ html' = None
        /\ archive' = <<>>
        /\ idx' = 0
        /\ extracted_files' = <<>>
        /\ date' = parsed.date
        /\ IF parsed.exc # None
           THEN Raised(parsed.exc, "date") /\ UNCHANGED log
           ELSE IF a \notin SupportedAreas
           THEN Raised("ValueError", "Unsupported area") /\ UNCHANGED log
           ELSE /\ result' = NoResult
                /\ IF a \in {"tohoku", "hokuriku"}
                   THEN pc' = "csv_get" /\ log' = Append(log, GetEv(CsvUrl(parsed.date, a)))
                   ELSE IF a \in {"tokyo", "chubu"}
                   THEN pc' = "zip_get" /\ log' = Append(log, GetEv(ZipUrl(parsed.date, a)))
                   ELSE pc' = "page_get" /\ log' = Append(log, GetEv(PageUrl(a)))

\* The URL of the GET that is under way.
PendingUrl == log[Len(log)].url

\* requests.get raises (no response at all): lines 69, 88, 119, 130.
GetFails ==
    /\ pc \in {"csv_get", "zip_get", "page_get"}
    /\ Raised("ConnectionError", "no response")
    /\ UNCHANGED <<area, date, html, archive, idx, extracted_files, fs, fs0, log>>
    /\ UNCHANGED <<driverVars, pureVars, caller, fromiso_basic>>

\* Lines 119-130: the lookup page's response, the search, the ZIP GET.
PageResponse ==
    /\ pc = "page_get"
    /\ \E status \in Statuses, page \in Pages :
          LET seen == Append(log, RespEv(PendingUrl, status))
          IN  IF raises_for_status(status)
              THEN Raised("HTTPError", "status") /\ log' = seen /\ UNCHANGED html
              ELSE /\ html' = page
                   /\ IF ~LinkFound(page, LinkPattern(date, area))
                      THEN Raised("ValueError", "No data link found") /\ log' = seen
                      ELSE /\ pc' = "zip_get"
                           /\ log' = Append(seen, GetEv(ZipUrl(date, area)))
                           /\ UNCHANGED result
    /\ UNCHANGED <<area, date, archive, idx, extracted_files, fs, fs0>>
    /\ UNCHANGED <<driverVars, pureVars, caller, fromiso_basic>>

\* Lines 70-83, 89-101: a direct CSV's response, decoded, cleaned and written.
CsvResponse ==
    /\ pc = "csv_get"
    /\ \E status \in Statuses, content \in Payloads, detected \in Detected,
          wok \in BOOLEAN :
          LET seen     == Append(log, RespEv(PendingUrl, status))
              dir      == TargetDir(date, area)
              dest     == DestPath(date, area, CsvName(date, area))
              encoding == CsvEncoding(detected)
              dec      == decode(content, encoding)
              made     == Append(seen, MkdirEv(dir))
              tried    == Append(made, DecodeEv(0, detected, encoding, dec.exc))
          IN  IF raises_for_status(status)
              THEN Raised("HTTPError", "status") /\ log' = seen /\ UNCHANGED fs
              ELSE IF dec.exc # None
              THEN Raised(dec.exc, "decode") /\ log' = tried /\ fs' = Mkdir(fs, dir)
              ELSE IF ~wok
              THEN /\ Raised("OSError", "open")
                   /\ log' = Append(tried, WriteEv(0, dest, "OSError"))
                   /\ fs' = Mkdir(fs, dir)
              ELSE /\ fs' = WriteText(Mkdir(fs, dir), dest, StripAllBlankLines(dec.text))
                   /\ log' = Append(tried, WriteEv(0, dest, None))
                   /\ pc' = "returned"
                   /\ result' = Return(<<dest>>)
    /\ UNCHANGED <<area, date, html, archive, idx, extracted_files, fs0>>
    /\ UNCHANGED <<driverVars, pureVars, caller, fromiso_basic>>

\* Lines 131-139: the ZIP's response, the target directory, the archive opened.
ZipResponse ==
    /\ pc = "zip_get"
    /\ \E status \in Statuses, good \in BOOLEAN, z \in ArchivesOf(caller) :
          LET seen == Append(log, RespEv(PendingUrl, status))
              dir  == TargetDir(date, area)
          IN  IF raises_for_status(status)
              THEN /\ Raised("HTTPError", "status") /\ log' = seen
                   /\ UNCHANGED <<fs, archive, idx>>
              ELSE /\ fs' = Mkdir(fs, dir)
                   /\ log' = Append(seen, MkdirEv(dir))
                   /\ IF ~good
                      THEN Raised("BadZipFile", "not a zip") /\ UNCHANGED <<archive, idx>>
                      ELSE /\ archive' = z
                           /\ idx' = 1
                           /\ pc' = "extract"
                           /\ UNCHANGED result
    /\ UNCHANGED <<area, date, html, extracted_files, fs0>>
    /\ UNCHANGED <<driverVars, pureVars, caller, fromiso_basic>>

\* A variant of MemberError that skips the failing member and goes on.
MemberError_Skip(exc, k) == [pc |-> "extract", idx |-> k + 1, result |-> NoResult]

\* Lines 140-175 have no handler: an exception in a member's processing leaves
\* the loop and the call.
MemberError(exc, k) == [pc |-> "raised", idx |-> k, result |-> Raise(exc, "member")]

\* Lines 140-175: one round of the member loop.
ExtractMember ==
    /\ pc = "extract"
    /\ idx <= Len(archive)
    /\ \E wok \in BOOLEAN :
          LET m        == archive[idx]
              dest     == DestPath(date, area, Basename(m.filename))
              encoding == MemberEncoding(m.detected)
              dec      == decode(m.data, encoding)
              tried    == Append(log, DecodeEv(idx, m.detected, encoding, dec.exc))
              Fail(exc) == /\ pc' = MemberError(exc, idx).pc
                           /\ idx' = MemberError(exc, idx).idx
                           /\ result' = MemberError(exc, idx).result
                           /\ UNCHANGED <<fs, extracted_files>>
          IN  IF m.kind = "dir"
              THEN idx' = idx + 1 /\ UNCHANGED <<pc, result, fs, extracted_files, log>>
              ELSE IF m.kind = "encrypted"
              THEN Fail("RuntimeError") /\ UNCHANGED log
              ELSE IF dec.exc # None
              THEN Fail(dec.exc) /\ log' = tried
              ELSE IF ~wok
              THEN Fail("OSError") /\ log' = Append(tried, WriteEv(idx, dest, "OSError"))
              ELSE /\ fs' = WriteText(fs, dest, CleanMember(area, dec.text))
                   /\ log' = Append(tried, WriteEv(idx, dest, None))
                   /\ extracted_files' = Append(extracted_files, dest)
                   /\ idx' = idx + 1
                   /\ UNCHANGED <<pc, result>>
    /\ UNCHANGED <<area, date, html, archive, fs0>>
    /\ UNCHANGED <<driverVars, pureVars, caller, fromiso_basic>>

\* Line 177.
ExtractReturn ==
    /\ pc = "extract"
    /\ idx > Len(archive)
    /\ pc' = "returned"
    /\ result' = Return(extracted_files)
    /\ UNCHANGED <<area, date, html, archive, idx, extracted_files, fs, fs0, log>>
    /\ UNCHANGED <<driverVars, pureVars, caller, fromiso_basic>>

\* A caller of the method: any date argument, any area.
ApiCall ==
    /\ caller = "api"
    /\ pc = "idle"
    /\ \E k \in DateKinds, d \in ApiDates, a \in ApiAreas :
          JuyoStart([kind |-> k, ymd |-> d], a)
    /\ UNCHANGED <<driverVars, pureVars, caller, fromiso_basic>>

IdleCall ==
    /\ pc = "idle" /\ area = None /\ date = None /\ html = None
    /\ archive = <<>> /\ idx = 0 /\ extracted_files = <<>>
    /\ result = NoResult /\ log = <<>>
    /\ fs \in {EmptyFS, OldFS} /\ fs0 = fs

IdleDriver ==
    /\ dpc = "idle" /\ yesterday = None /\ dIdx = 0
    /\ calls = <<>> /\ stdout = <<>> /\ exit_status = None

IdlePure ==
    pKind = None /\ pStage = 0 /\ pIn = None /\ pOut = None /\ pOut2 = None

Init ==
    /\ caller = "api"
    /\ fromiso_basic \in BOOLEAN
    /\ IdleCall /\ IdleDriver /\ IdlePure

Next == ApiCall \/ GetFails \/ PageResponse \/ CsvResponse \/ ZipResponse
            \/ ExtractMember \/ ExtractReturn

Spec == Init /\ [][Next]_vars

(***************************************************************************)
(* The driver, src/run_epco_juyo.py.                                       *)
(***************************************************************************)
\* Lines 7-18.
AREAS == <<"hokkaido", "tohoku", "tokyo", "chubu", "chugoku",
           "hokuriku", "kansai", "shikoku", "kyushu", "okinawa">>

\* Line 22: the day before the run.
DriverDates == {Ymd(2024, 5, 10), Ymd(2024, 1, 1)}

\* The exceptions line 30 catches: RuntimeError and its subclasses.
IsRuntimeError(exc) == exc = "RuntimeError"

\* A variant of OnError that goes on with the next area.
OnError_Continue(exc, k) ==
    [dpc |-> "loop", dIdx |-> k + 1, exit_status |-> None, printed |-> "err"]

\* Lines 30-32, and an exception they do not catch: the error or the traceback
\* is printed and the process ends with status 1.
OnError(exc, k) ==
    [dpc |-> "exited", dIdx |-> k, exit_status |-> 1,
     printed |-> IF IsRuntimeError(exc) THEN "err" ELSE "traceback"]

Outcome(k, what) == [calls EXCEPT ![k].outcome = what]

\* Lines 25-27: the next area's call, with the date as %Y%m%d.
DriverCall ==
    /\ caller = "driver"
    /\ dpc = "loop"
    /\ dIdx <= Len(AREAS)
    /\ JuyoStart([kind |-> "str_basic", ymd |-> yesterday], AREAS[dIdx])
    /\ dpc' = "in_call"
    /\ calls' = Append(calls, [area |-> AREAS[dIdx], outcome |-> "running"])
    /\ UNCHANGED <<yesterday, dIdx, stdout, exit_status>>
    /\ UNCHANGED <<pureVars, caller, fromiso_basic>>

\* Lines 28-29, then the loop's next round, or the end of the script.
DriverPrint ==
    /\ dpc = "in_call"
    /\ pc = "returned"
    /\ stdout' = stdout \o result.paths
    /\ calls' = Outcome(dIdx, "returned")
    /\ dIdx' = dIdx + 1
    /\ IF dIdx = Len(AREAS)
       THEN dpc' = "exited" /\ exit_status' = 0
       ELSE dpc' = "loop" /\ UNCHANGED exit_status
    /\ UNCHANGED <<callVars, yesterday, pureVars, caller, fromiso_basic>>

\* Lines 30-32.
DriverExcept ==
    /\ dpc = "in_call"
    /\ pc = "raised"
    /\ IsRuntimeError(result.exc)
    /\ stdout' = Append(stdout, OnError(result.exc, dIdx).printed)
    /\ calls' = Outcome(dIdx, "raised")
    /\ dpc' = OnError(result.exc, dIdx).dpc
    /\ dIdx' = OnError(result.exc, dIdx).dIdx
    /\ exit_status' = OnError(result.exc, dIdx).exit_status
    /\ UNCHANGED <<callVars, yesterday, pureVars, caller, fromiso_basic>>

\* An exception line 30 does not catch leaves the script.
DriverUncaught ==
    /\ dpc = "in_call"
    /\ pc = "raised"
    /\ ~IsRuntimeError(result.exc)
    /\ calls' = Outcome(dIdx, "raised")
    /\ dpc' = OnError(result.exc, dIdx).dpc
    /\ dIdx' = OnError(result.exc, dIdx).dIdx
    /\ exit_status' = OnError(result.exc, dIdx).exit_status
    /\ UNCHANGED <<callVars, yesterday, stdout, pureVars, caller, fromiso_basic>>

InitDriver ==
    /\ caller = "driver"
    /\ fromiso_basic \in BOOLEAN
    /\ IdleCall /\ IdlePure
    /\ dpc = "loop" /\ yesterday \in DriverDates /\ dIdx = 1
    /\ calls = <<>> /\ stdout = <<>> /\ exit_status = None

NextDriver == DriverCall \/ DriverPrint \/ DriverExcept \/ DriverUncaught
                \/ GetFails \/ PageResponse \/ CsvResponse \/ ZipResponse
                \/ ExtractMember \/ ExtractReturn

SpecDriver == InitDriver /\ [][NextDriver]_vars

(***************************************************************************)
(* The pure functions, applied to bounded inputs.                          *)
(***************************************************************************)
Alphabet == {"a", " ", LF, CR}

Texts == SeqsUpTo(Alphabet, MaxLen)

LocateDates == {Ymd(y, m, 10) : y \in {2023, 2024}, m \in 1..12}

\* Lines 110-116: the quarter and the filename of a quarterly archive.
Locate(d, a) ==
    [start_month |-> start_months[d.m], end_month |-> end_months[d.m],
     filename |-> QuarterlyZipName(d, a)]

ApplyStrip ==
    /\ pKind = "strip" /\ pStage = 0
    /\ pOut' = StripAllBlankLines(pIn)
    /\ pStage' = 1
    /\ UNCHANGED <<pKind, pIn, pOut2, callVars, driverVars, caller, fromiso_basic>>

ApplyStripAgain ==
    /\ pKind = "strip" /\ pStage = 1
    /\ pOut2' = StripAllBlankLines(pOut)
    /\ pStage' = 2
    /\ UNCHANGED <<pKind, pIn, pOut, callVars, driverVars, caller, fromiso_basic>>

ApplyCollapse ==
    /\ pKind = "collapse" /\ pStage = 0
    /\ pOut' = CollapseSingleBlankLines(pIn)
    /\ pStage' = 1
    /\ UNCHANGED <<pKind, pIn, pOut2, callVars, driverVars, caller, fromiso_basic>>

ApplyCollapseAgain ==
    /\ pKind = "collapse" /\ pStage = 1
    /\ pOut2' = CollapseSingleBlankLines(pOut)
    /\ pStage' = 2
    /\ UNCHANGED <<pKind, pIn, pOut, callVars, driverVars, caller, fromiso_basic>>

ApplyLocate ==
    /\ pKind = "locate" /\ pStage = 0
    /\ pOut' = Locate(pIn.date, pIn.area)
    /\ pStage' = 1
    /\ UNCHANGED <<pKind, pIn, pOut2, callVars, driverVars, caller, fromiso_basic>>

InitPure ==
    /\ caller = "pure"
    /\ fromiso_basic = TRUE
    /\ IdleCall /\ IdleDriver
    /\ fs = EmptyFS
    /\ pStage = 0 /\ pOut = None /\ pOut2 = None
    /\ \/ pKind \in {"strip", "collapse"} /\ pIn \in Texts
       \/ pKind = "locate" /\ pIn \in [date : LocateDates, area : {"hokkaido"}]

NextPure == ApplyStrip \/ ApplyStripAgain \/ ApplyCollapse \/ ApplyCollapseAgain
                \/ ApplyLocate

SpecPure == InitPure /\ [][NextPure]_vars

(***************************************************************************)
(* Claims about the pure functions, under SpecPure.                        *)
(***************************************************************************)
Quarters == {<<1, 3>>, <<4, 6>>, <<7, 9>>, <<10, 12>>}

\* C5: for every month m in 1..12 the pair (start_months[m], end_months[m]) used
\* for the quarterly archive's filename is one of (1,3), (4,6), (7,9), (10,12)
\* and start_months[m] <= m <= end_months[m]; a date in May 2024 gives the
\* filename 202404-06_<area>_denkiyohou.zip.
C5_QuarterOfMonth ==
    (pKind = "locate" /\ pStage = 1) =>
        /\ <<pOut.start_month, pOut.end_month>> \in Quarters
        /\ pOut.start_month <= pIn.date.m
        /\ pIn.date.m <= pOut.end_month
        /\ (pIn.date.y = 2024 /\ pIn.date.m = 5 =>
                pOut.filename = "202404-06_" \o pIn.area \o "_denkiyohou.zip")

C5_Witness ==
    /\ pKind = "locate" /\ pStage = 1
    /\ pIn.date = Ymd(2024, 5, 10)
    /\ pOut.filename = "202404-06_hokkaido_denkiyohou.zip"

\* The text has no line that is empty or whitespace-only.
NoBlankLine(text) ==
    \A k \in 1..Len(splitlines(text)) : ~IsBlank(splitlines(text)[k])

\* The text ends with a newline that no other newline precedes.
OneTrailingNewline(text) ==
    /\ Len(text) >= 1
    /\ text[Len(text)] = LF
    /\ Len(text) >= 2 => text[Len(text) - 1] \notin LineBreaks

HasNonBlankLine(text) ==
    \E k \in 1..Len(splitlines(text)) : ~IsBlank(splitlines(text)[k])

\* C6 as stated: the strip-all-blank-lines cleaning is idempotent, and for every
\* input, the empty text and a text of blank lines included, its result has no
\* empty or whitespace-only line and ends with exactly one trailing newline.
C6_AsStated ==
    (pKind = "strip" /\ pStage = 2) =>
        /\ pOut2 = pOut
        /\ NoBlankLine(pOut)
        /\ OneTrailingNewline(pOut)

\* C6 as amended: the cleaning is idempotent and its result ends with exactly
\* one trailing newline, for every input; the result has no empty or
\* whitespace-only line when the input has a line that is not blank, and is the
\* single newline (one empty line) when the input has none.
C6_StripIdempotent ==
    (pKind = "strip" /\ pStage = 2) =>
        /\ pOut2 = pOut
        /\ OneTrailingNewline(pOut)
        /\ HasNonBlankLine(pIn) => NoBlankLine(pOut)
        /\ ~HasNonBlankLine(pIn) => pOut = <<LF>>

C6_Witness ==
    /\ pKind = "strip" /\ pStage = 2
    /\ pIn = <<"a", LF, " ", CR, "a">>
    /\ pOut = <<"a", LF, "a", LF>>
    /\ pOut2 = pOut

\* Line k is blank and has a blank neighbour: it is in a run of two or more.
InLongRun(lines, k) ==
    /\ IsBlank(lines[k])
    /\ \/ k > 1 /\ IsBlank(lines[k - 1])
       \/ k < Len(lines) /\ IsBlank(lines[k + 1])

\* The lines that are not blank and the blank lines of runs of two or more, in
\* order; a kept blank line as it is (asIs) or as the empty line.
RECURSIVE KeepFrom(_, _, _)
KeepFrom(lines, k, asIs) ==
    IF k > Len(lines) THEN <<>>
    ELSE IF ~IsBlank(lines[k]) THEN <<lines[k]>> \o KeepFrom(lines, k + 1, asIs)
    ELSE IF InLongRun(lines, k)
         THEN <<IF asIs THEN lines[k] ELSE <<>>>> \o KeepFrom(lines, k + 1, asIs)
         ELSE KeepFrom(lines, k + 1, asIs)

Gets == SelectSeq(log, LAMBDA e : e.ev = "GET")

\* The events of the log that touch the filesystem.
Touches == SelectSeq(log, LAMBDA e : e.ev \in {"mkdir", "write"})

\* The lookup page was fetched and its text lacks area/data/zip/<filename>.
LinkAbsent ==
    /\ area = "hokkaido"
    /\ html # None
    /\ \A k \in 1..Len(html) :
          html[k] # <<"area", "data", "zip", QuarterlyZipName(date, area)>>

\* C1: in juyo for hokkaido, when the lookup page GET succeeds and the page text
\* lacks the exact substring area/data/zip/<expected filename>, the call fails
\* with the 'no data link found' error, no GET to a data (ZIP) URL is issued
\* and no directory or file is created in that call.
C1_NoLinkNoDownload ==
    LinkAbsent =>
        /\ pc = "raised"
        /\ result = Raise("ValueError", "No data link found")
        /\ Gets = <<GetEv(PageUrl("hokkaido"))>>
        /\ Touches = <<>>
        /\ fs = fs0

C1_Witness ==
    /\ LinkAbsent
    /\ Len(html) = 2
    /\ date = Ymd(2024, 5, 10)
    /\ pc = "raised"

\* Event i is a member's decoding or writing that failed.
MemberFailure(i) ==
    /\ log[i].ev \in {"decode", "write"}
    /\ log[i].member >= 1
    /\ log[i].exc # None

\* C2: archive processing is abort-on-first-error: when decoding or writing of
\* a ZIP member fails the call ends with that error, no member that follows it
\* is decoded or written, no list of paths is returned, and the files of the
\* members processed before it stay on disk as written.
C2_AbortOnFirstError ==
    \A i \in 1..Len(log) :
        MemberFailure(i) =>
            /\ pc = "raised"
            /\ result.kind = "raise"
            /\ result.exc = log[i].exc
            /\ result.paths = <<>>
            /\ i = Len(log)
            /\ \A j \in 1..Len(log) :
                  log[j].member > log[i].member => log[j].ev \notin {"decode", "write"}
            /\ \A j \in 1..(i - 1) :
                  (log[j].ev = "write" /\ log[j].exc = None) =>
                      \E f \in fs.files : f.path = log[j].path /\ f.mode = "w"

C2_Witness ==
    /\ pc = "raised"
    /\ Len(archive) = 2
    /\ idx = 1
    /\ archive[2].kind = "file"
    /\ result.exc = "UnicodeDecodeError"
    /\ MemberFailure(Len(log))

\* C3 as stated: for every area and every payload (direct CSV body or ZIP
\* member), when encoding detection yields no result the decoder falls back to
\* Shift-JIS and decodes with it, rather than failing or using another encoding.
C3_AsStated ==
    \A i \in 1..Len(log) :
        (log[i].ev = "decode" /\ log[i].detected = None) =>
            /\ Codec(log[i].encoding) = "shift_jis"
            /\ log[i].exc # "LookupError"

\* C4 as stated: for an archive area, a ZIP member whose detected encoding is
\* not supported for text decoding is written to its destination as the
\* member's raw bytes, without normalization, and no decode error is raised.
C4_AsStated ==
    \A i \in 1..Len(log) :
        (log[i].ev = "decode" /\ log[i].member >= 1
            /\ log[i].detected # None /\ Codec(log[i].detected) = None) =>
            /\ log[i].exc = None
            /\ \E f \in fs.files :
                  /\ f.path = DestPath(date, area, Basename(archive[log[i].member].filename))
                  /\ f.mode = "wb"
                  /\ f.content = archive[log[i].member].data

\* The category and the short code the claim fixes per area.
Category(a) == IF a = "hokuriku" THEN "hrk" ELSE "juyo"

ShortCode(a) ==
    CASE a = "hokkaido" -> "hok"
      [] a = "tohoku"   -> "toh"
      [] a = "tokyo"    -> "tok"
      [] a = "chubu"    -> "chb"
      [] a = "hokuriku" -> "hrk"

\* The name of the file write event e writes.
WrittenName(e) ==
    IF e.member = 0 THEN CsvName(date, area) ELSE Basename(archive[e.member].filename)

Writes == SelectSeq(log, LAMBDA e : e.ev = "write" /\ e.exc = None)

\* Every file the call created or changed is one the log has a write for.
OnlyLoggedWrites ==
    \A f \in fs.files \ fs0.files : \E k \in 1..Len(Writes) : Writes[k].path = f.path

FailsFast(i) ==
    /\ pc = "raised"
    /\ result.exc = "HTTPError"
    /\ i = Len(log)
    /\ \A j, k \in 1..Len(Gets) : Gets[j].url = Gets[k].url => j = k
    /\ Touches = <<>>
    /\ fs = fs0

\* C9 as stated: a non-2xx response to any GET ends the call with an HTTP error:
\* no retry, no further GET, no directory or file created or changed.
C9_AsStated ==
    \A i \in 1..Len(log) :
        (log[i].ev = "response" /\ ~(200 <= log[i].status /\ log[i].status <= 299)) =>
            FailsFast(i)

\* C9 as amended: a 4xx or 5xx response to any GET (the statuses
\* raise_for_status rejects) ends the call with an HTTP error: no retry, no
\* further GET, no directory or file created or changed.  Another status that
\* is not 2xx, such as a final 304, is taken as a success.
C9_ErrorStatusFailsFast ==
    \A i \in 1..Len(log) :
        (log[i].ev = "response" /\ 400 <= log[i].status /\ log[i].status <= 599) =>
            FailsFast(i)

C9_Witness ==
    /\ area = "hokkaido"
    /\ pc = "raised"
    /\ Len(log) = 4
    /\ log[4].ev = "response"
    /\ log[4].status = 404
    /\ log[4].url = ZipUrl(date, area)

(***************************************************************************)
(* Claims about the driver, under SpecDriver.                              *)
(***************************************************************************)
\* C10: one run of the driver calls juyo once per area of AREAS, in list order;
\* the first area whose call raises ends the run as a failed process and no
\* later area is attempted, so an area is attempted only if no earlier one
\* failed.
C10_StopsAtFirstError ==
    /\ Len(calls) <= Len(AREAS)
    /\ \A k \in 1..Len(calls) : calls[k].area = AREAS[k]
    /\ \A k \in 1..(Len(calls) - 1) : calls[k].outcome = "returned"
    /\ (dpc = "in_call" /\ pc = "raised") => ~ENABLED DriverCall
    /\ \A k \in 1..Len(calls) :
          calls[k].outcome = "raised" =>
              /\ k = Len(calls)
              /\ dpc = "exited"
              /\ exit_status = 1
    /\ (dpc = "exited" /\ exit_status = 0) => Len(calls) = Len(AREAS)

C10_Witness ==
    /\ dpc = "exited"
    /\ exit_status = 1
    /\ Len(calls) = 5
    /\ calls[5] = [area |-> "chugoku", outcome |-> "raised"]
    /\ result = Raise("ValueError", "Unsupported area")

====
